---- MODULE Spec2Model ----
(***************************************************************************)
(* serde-constant: zero-size wrappers ConstBool<V>, ConstI8<V> ..          *)
(* ConstI128<V>, ConstU8<V> .. ConstU128<V>, ConstChar<V> whose            *)
(* Serialize emits V and whose Deserialize visitor accepts only V.         *)
(*                                                                         *)
(* TLC integers are 32-bit, so the three widest integer widths are scaled  *)
(* down (Bits32 < Bits64 < Bits128 < 31) while i8/u8 and i16/u16 keep      *)
(* their real widths.  Every cast of the source (`as i128`, `as u128`,     *)
(* `as i64`, `as u64`, i128::try_from) is modelled by the wrapping or      *)
(* checked arithmetic it performs at the modelled width.                   *)
(***************************************************************************)
EXTENDS Integers, Sequences, FiniteSets, TLC

VARIABLES target, pc, wire, input, result

vars == <<target, pc, wire, input, result>>

----------------------------------------------------------------------------
(* Widths of the primitive integer types.                                  *)

Bits8 == 8
Bits16 == 16
Bits32 == 20
Bits64 == 24
Bits128 == 28

\* Longest text observation, in characters.
MaxStrLen == 2

SignedKinds == {"i8", "i16", "i32", "i64", "i128"}
UnsignedKinds == {"u8", "u16", "u32", "u64", "u128"}
IntKinds == SignedKinds \cup UnsignedKinds

Bits(k) ==
    CASE k \in {"i8", "u8"} -> Bits8
      [] k \in {"i16", "u16"} -> Bits16
      [] k \in {"i32", "u32"} -> Bits32
      [] k \in {"i64", "u64"} -> Bits64
      [] k \in {"i128", "u128"} -> Bits128

MinOf(k) == IF k \in SignedKinds THEN -(2 ^ (Bits(k) - 1)) ELSE 0
MaxOf(k) == IF k \in SignedKinds THEN 2 ^ (Bits(k) - 1) - 1 ELSE 2 ^ Bits(k) - 1
InRange(k, x) == MinOf(k) <= x /\ x <= MaxOf(k)

----------------------------------------------------------------------------
(* Numeric casts.                                                          *)

\* `x as iN`: two's-complement wrap to b bits (sign extension when x fits).
WrapSigned(x, b) == ((x + 2 ^ (b - 1)) % (2 ^ b)) - 2 ^ (b - 1)
\* `x as uN`: reduction modulo 2^b (zero extension when x fits).
WrapUnsigned(x, b) == x % (2 ^ b)

as_i128(x) == WrapSigned(x, Bits128)
as_u128(x) == WrapUnsigned(x, Bits128)
as_i64(x) == WrapSigned(x, Bits64)
as_u64(x) == WrapUnsigned(x, Bits64)

----------------------------------------------------------------------------
(* Text: a &str is a sequence of UTF-8 bytes, a char is a code point.      *)

CharX == 120
CharY == 121
CharEAcute == 233
Chars == {CharX, CharY, CharEAcute}

encode_utf8(c) ==
    IF c < 128 THEN <<c>> ELSE <<192 + (c \div 64), 128 + (c % 64)>>

\* Number of bytes of the character that starts with lead byte b.
utf8_width(b) == IF b < 128 THEN 1 ELSE 2

\* One step of `Chars::next`: the first character and the remaining bytes.
chars_next(s) ==
    IF Len(s) = 0 THEN [some |-> FALSE, ch |-> 0, rest |-> s]
    ELSE IF utf8_width(s[1]) = 1
         THEN [some |-> TRUE, ch |-> s[1], rest |-> SubSeq(s, 2, Len(s))]
         ELSE [some |-> TRUE,
               ch |-> (s[1] - 192) * 64 + (s[2] - 128),
               rest |-> SubSeq(s, 3, Len(s))]

----------------------------------------------------------------------------
(* Describer: the text `expecting` writes, as a sequence of code points.   *)

RECURSIVE fmt_digits(_)
fmt_digits(n) ==
    IF n < 10 THEN <<48 + n>> ELSE fmt_digits(n \div 10) \o <<48 + (n % 10)>>

\* `{V}` for an integer V.
fmt_int(n) == IF n < 0 THEN <<45>> \o fmt_digits(-n) ELSE fmt_digits(n)

\* `{V}` for a boolean V: "true" / "false".
fmt_bool(b) == IF b THEN <<116, 114, 117, 101>> ELSE <<102, 97, 108, 115, 101>>

ConstBoolVisitor_expecting(w) == fmt_bool(w.V)

int_expecting(w) == fmt_int(w.V)

uint_expecting(w) == fmt_int(w.V)

\* Variant of expecting that writes the character without quotes.
ConstCharVisitor_expecting_bare(w) == <<w.V>>

ConstCharVisitor_expecting(w) == <<39, w.V, 39>>

----------------------------------------------------------------------------
(* Results of a visit.                                                     *)

NoResult == [tag |-> "none"]
Ok(w) == [tag |-> "Ok", marker |-> w]
invalid_value(unexp, exp) == [tag |-> "invalid_value", unexp |-> unexp, exp |-> exp]
invalid_length(len, exp) == [tag |-> "invalid_length", len |-> len, exp |-> exp]

Unexpected(kind, val) == [kind |-> kind, val |-> val]

----------------------------------------------------------------------------
(* ConstBool.                                                              *)

ConstBool_serialize(w) == [kind |-> "bool", val |-> w.V]

ConstBoolVisitor_visit_bool(w, v) ==
    IF v = w.V THEN Ok(w)
    ELSE invalid_value(Unexpected("Bool", v), ConstBoolVisitor_expecting(w))

----------------------------------------------------------------------------
(* declare_int!: ConstI8 .. ConstI128.                                     *)

int_serialize(w) == [kind |-> w.ty, val |-> w.V]

\* Variants of visit_i128 with a plausible slip in the comparison.
int_visit_i128_narrowed(w, v) ==
    IF v = as_i64(w.V) THEN Ok(w)
    ELSE invalid_value(Unexpected("Signed", as_i64(w.V)), int_expecting(w))

int_visit_i128_at_least(w, v) ==
    IF v >= as_i128(w.V) THEN Ok(w)
    ELSE invalid_value(Unexpected("Signed", as_i64(w.V)), int_expecting(w))

int_visit_i128_cast_to_T(w, v) ==
    IF WrapSigned(v, Bits(w.ty)) = w.V THEN Ok(w)
    ELSE invalid_value(Unexpected("Signed", as_i64(w.V)), int_expecting(w))

int_visit_i128(w, v) ==
    IF v = as_i128(w.V) THEN Ok(w)
    ELSE invalid_value(Unexpected("Signed", as_i64(w.V)), int_expecting(w))

int_visit_i8(w, v) == int_visit_i128(w, as_i128(v))
int_visit_i16(w, v) == int_visit_i128(w, as_i128(v))
int_visit_i32(w, v) == int_visit_i128(w, as_i128(v))
int_visit_i64(w, v) == int_visit_i128(w, as_i128(v))
int_visit_u8(w, v) == int_visit_i128(w, as_i128(v))
int_visit_u16(w, v) == int_visit_i128(w, as_i128(v))
int_visit_u32(w, v) == int_visit_i128(w, as_i128(v))
int_visit_u64(w, v) == int_visit_i128(w, as_i128(v))

\* Variant of visit_u128 that casts with `as i128` instead of try_from.
int_visit_u128_as_cast(w, v) == int_visit_i128(w, as_i128(v))

\* i128::try_from(v) fails exactly when v > i128::MAX.
int_visit_u128(w, v) ==
    IF v <= MaxOf("i128") THEN int_visit_i128(w, v)
    ELSE invalid_value(Unexpected("Unsigned", as_u64(v)), int_expecting(w))

----------------------------------------------------------------------------
(* declare_uint!: ConstU8 .. ConstU128.                                    *)

\* Variant of serialize that emits through a 64-bit sink.
uint_serialize_u64(w) == [kind |-> w.ty, val |-> as_u64(w.V)]

uint_serialize(w) == [kind |-> w.ty, val |-> w.V]

uint_visit_u128(w, v) ==
    IF v = as_u128(w.V) THEN Ok(w)
    ELSE invalid_value(Unexpected("Unsigned", as_u64(v)), uint_expecting(w))

\* Variant of visit_i128 without the sign test.
uint_visit_i128_unchecked(w, v) == uint_visit_u128(w, as_u128(v))

uint_visit_i128(w, v) ==
    IF v < 0 THEN invalid_value(Unexpected("Signed", as_i64(v)), uint_expecting(w))
    ELSE uint_visit_u128(w, as_u128(v))

uint_visit_i8(w, v) == uint_visit_i128(w, as_i128(v))
uint_visit_i16(w, v) == uint_visit_i128(w, as_i128(v))
uint_visit_i32(w, v) == uint_visit_i128(w, as_i128(v))
uint_visit_i64(w, v) == uint_visit_i128(w, as_i128(v))
uint_visit_u8(w, v) == uint_visit_u128(w, as_u128(v))
uint_visit_u16(w, v) == uint_visit_u128(w, as_u128(v))
uint_visit_u32(w, v) == uint_visit_u128(w, as_u128(v))
uint_visit_u64(w, v) == uint_visit_u128(w, as_u128(v))

----------------------------------------------------------------------------
(* ConstChar.                                                              *)

ConstChar_serialize(w) == [kind |-> "char", val |-> w.V]

ConstCharVisitor_visit_char(w, v) ==
    IF v = w.V THEN Ok(w)
    ELSE invalid_value(Unexpected("Char", v), ConstCharVisitor_expecting(w))

\* Variant of visit_str that never looks past the first character.
ConstCharVisitor_visit_str_first(w, v) ==
    LET first == chars_next(v)
    IN  IF ~first.some THEN invalid_length(0, ConstCharVisitor_expecting(w))
        ELSE ConstCharVisitor_visit_char(w, first.ch)

ConstCharVisitor_visit_str(w, v) ==
    LET first == chars_next(v)
    IN  IF ~first.some THEN invalid_length(0, ConstCharVisitor_expecting(w))
        ELSE IF chars_next(first.rest).some
             THEN invalid_length(2, ConstCharVisitor_expecting(w))
             ELSE ConstCharVisitor_visit_char(w, first.ch)

----------------------------------------------------------------------------
(* Dispatch of one observation to the visitor method of its kind.          *)

int_visit(w, k, v) ==
    CASE k = "i8" -> int_visit_i8(w, v)
      [] k = "i16" -> int_visit_i16(w, v)
      [] k = "i32" -> int_visit_i32(w, v)
      [] k = "i64" -> int_visit_i64(w, v)
      [] k = "i128" -> int_visit_i128(w, v)
      [] k = "u8" -> int_visit_u8(w, v)
      [] k = "u16" -> int_visit_u16(w, v)
      [] k = "u32" -> int_visit_u32(w, v)
      [] k = "u64" -> int_visit_u64(w, v)
      [] k = "u128" -> int_visit_u128(w, v)

----------------------------------------------------------------------------
(* Wrapper types (one per (T, V)) and the observations a decoder presents. *)

Edge(b) ==
    {2 ^ (b - 1) - 1, 2 ^ (b - 1), 2 ^ b - 1, 2 ^ b,
     -(2 ^ (b - 1)), -(2 ^ (b - 1)) - 1}

Samples ==
    {-56, -5, -1, 0, 1, 2, 200, 251, 2 ^ Bits64 + 7, -(2 ^ Bits64) - 5}
    \cup Edge(Bits8) \cup Edge(Bits16) \cup Edge(Bits32) \cup Edge(Bits64)
    \cup Edge(Bits128)

Values(k) == {x \in Samples : InRange(k, x)}

ConstBool(v) == [fam |-> "bool", ty |-> "bool", V |-> v]
ConstInt(k, v) == [fam |-> "int", ty |-> k, V |-> v]
ConstUint(k, v) == [fam |-> "uint", ty |-> k, V |-> v]
ConstI64(v) == ConstInt("i64", v)
ConstChar(v) == [fam |-> "char", ty |-> "char", V |-> v]

\* The untagged enum of the crate documentation:
\* Bar { tag: ConstI64<1> }, Baz { tag: ConstI64<2>, x }.
Foo == [fam |-> "untagged", ty |-> "Foo",
        V |-> <<[name |-> "Bar", tag |-> ConstI64(1)],
                [name |-> "Baz", tag |-> ConstI64(2)]>>]

BoolWrappers == {ConstBool(v) : v \in BOOLEAN}
IntWrappers ==
    UNION {{ConstInt(k, v) : v \in Values(k)} : k \in SignedKinds}
    \cup UNION {{ConstUint(k, v) : v \in Values(k)} : k \in UnsignedKinds}
CharWrappers == {ConstChar(v) : v \in Chars}

RECURSIVE encode_str(_)
encode_str(cs) ==
    IF Len(cs) = 0 THEN <<>> ELSE encode_utf8(Head(cs)) \o encode_str(Tail(cs))

Strs == {encode_str(cs) : cs \in UNION {[1..n -> Chars] : n \in 0..MaxStrLen}}

IntInputs == UNION {{[kind |-> k, val |-> v] : v \in Values(k)} : k \in IntKinds}

\* What a decoder may present to the visitor of t: the kinds the visitor
\* implements a visit method for.
Inputs(t) ==
    CASE t.fam = "bool" -> {[kind |-> "bool", val |-> v] : v \in BOOLEAN}
      [] t.fam \in {"int", "uint", "untagged"} -> IntInputs
      [] t.fam = "char" -> {[kind |-> "char", val |-> v] : v \in Chars}

\* A character visitor is also presented text.
TextInputs(t) ==
    IF t.fam = "char" THEN {[kind |-> "str", val |-> v] : v \in Strs} ELSE {}

\* The representations in which a decoder may hand back an emitted value.
Presentations(e) ==
    CASE e.kind = "bool" -> {e}
      [] e.kind \in IntKinds ->
            {[kind |-> k, val |-> e.val] : k \in {j \in IntKinds : InRange(j, e.val)}}
      [] e.kind = "char" -> {e}

\* An emitted character may come back as a one-character text.
TextPresentations(e) ==
    IF e.kind = "char" THEN {[kind |-> "str", val |-> encode_utf8(e.val)]} ELSE {}

NoWire == [kind |-> "none"]
NoInput == [kind |-> "none"]

----------------------------------------------------------------------------
(* The untagged enum tries its variants in declaration order.              *)

RECURSIVE try_variants(_, _, _, _)
try_variants(alts, i, in, tried) ==
    IF i > Len(alts) THEN [tag |-> "no_variant", variant |-> "none", tried |-> tried]
    ELSE LET r == int_visit(alts[i].tag, in.kind, in.val)
         IN  IF r.tag = "Ok"
             THEN [tag |-> "Ok", variant |-> alts[i].name, tried |-> Append(tried, r)]
             ELSE try_variants(alts, i + 1, in, Append(tried, r))

Foo_deserialize(t, in) == try_variants(t.V, 1, in, <<>>)

----------------------------------------------------------------------------
(* State machine.                                                          *)

Init ==
    /\ \/ target \in BoolWrappers
       \/ target \in IntWrappers
       \/ target \in CharWrappers
       \/ target = Foo
    /\ pc = "idle"
    /\ wire = NoWire
    /\ input = NoInput
    /\ result = NoResult

serialize(w) ==
    CASE w.fam = "bool" -> ConstBool_serialize(w)
      [] w.fam = "int" -> int_serialize(w)
      [] w.fam = "uint" -> uint_serialize(w)
      [] w.fam = "char" -> ConstChar_serialize(w)

Serialize ==
    /\ pc = "idle"
    /\ target.fam # "untagged"
    /\ wire' = serialize(target)
    /\ pc' = "emitted"
    /\ UNCHANGED <<target, input, result>>

\* deserialize: hand a fresh visitor to a decoder holding an arbitrary value.
Deserialize ==
    /\ pc = "idle"
    /\ target.fam # "untagged"
    /\ \/ \E in \in Inputs(target) : input' = in
       \/ \E in \in TextInputs(target) : input' = in
    /\ pc' = "visiting"
    /\ UNCHANGED <<target, wire, result>>

\* deserialize: hand a fresh visitor to a decoder holding the emitted value.
DeserializeEmitted ==
    /\ pc = "emitted"
    /\ \/ \E in \in Presentations(wire) : input' = in
       \/ \E in \in TextPresentations(wire) : input' = in
    /\ pc' = "visiting"
    /\ UNCHANGED <<target, wire, result>>

Visit(k, r) ==
    /\ pc = "visiting"
    /\ input.kind = k
    /\ result' = r
    /\ pc' = "returned"
    /\ UNCHANGED <<target, wire, input>>

VisitBool == Visit("bool", ConstBoolVisitor_visit_bool(target, input.val))

VisitI8 ==
    Visit("i8", IF target.fam = "int" THEN int_visit_i8(target, input.val)
                ELSE uint_visit_i8(target, input.val))
VisitI16 ==
    Visit("i16", IF target.fam = "int" THEN int_visit_i16(target, input.val)
                 ELSE uint_visit_i16(target, input.val))
VisitI32 ==
    Visit("i32", IF target.fam = "int" THEN int_visit_i32(target, input.val)
                 ELSE uint_visit_i32(target, input.val))
VisitI64 ==
    Visit("i64", IF target.fam = "int" THEN int_visit_i64(target, input.val)
                 ELSE uint_visit_i64(target, input.val))
VisitI128 ==
    Visit("i128", IF target.fam = "int" THEN int_visit_i128(target, input.val)
                  ELSE uint_visit_i128(target, input.val))
VisitU8 ==
    Visit("u8", IF target.fam = "int" THEN int_visit_u8(target, input.val)
                ELSE uint_visit_u8(target, input.val))
VisitU16 ==
    Visit("u16", IF target.fam = "int" THEN int_visit_u16(target, input.val)
                 ELSE uint_visit_u16(target, input.val))
VisitU32 ==
    Visit("u32", IF target.fam = "int" THEN int_visit_u32(target, input.val)
                 ELSE uint_visit_u32(target, input.val))
VisitU64 ==
    Visit("u64", IF target.fam = "int" THEN int_visit_u64(target, input.val)
                 ELSE uint_visit_u64(target, input.val))
VisitU128 ==
    Visit("u128", IF target.fam = "int" THEN int_visit_u128(target, input.val)
                  ELSE uint_visit_u128(target, input.val))

VisitChar == Visit("char", ConstCharVisitor_visit_char(target, input.val))

VisitStr == Visit("str", ConstCharVisitor_visit_str(target, input.val))

\* Deserialize of the untagged enum: buffer the tag, try each variant.
DeserializeUntagged ==
    /\ pc = "idle"
    /\ target.fam = "untagged"
    /\ \E in \in Inputs(target) :
          /\ input' = in
          /\ result' = Foo_deserialize(target, in)
    /\ pc' = "returned"
    /\ UNCHANGED <<target, wire>>

Next ==
    \/ Serialize
    \/ Deserialize
    \/ DeserializeEmitted
    \/ VisitBool
    \/ VisitI8
    \/ VisitI16
    \/ VisitI32
    \/ VisitI64
    \/ VisitI128
    \/ VisitU8
    \/ VisitU16
    \/ VisitU32
    \/ VisitU64
    \/ VisitU128
    \/ VisitChar
    \/ VisitStr
    \/ DeserializeUntagged

Spec == Init /\ [][Next]_vars

TypeOK ==
    /\ pc \in {"idle", "emitted", "visiting", "returned"}
    /\ result.tag \in {"none", "Ok", "invalid_value", "invalid_length", "no_variant"}

----------------------------------------------------------------------------
(* Properties.                                                             *)

Returned == pc = "returned"
IsInt == target.fam \in {"int", "uint"}

\* The wrapper in use is the one of family f, type k and constant v.
TargetIs(f, k, v) == target.fam = f /\ target.ty = k /\ target.V = v
\* The decoder presented the value v in representation k.
InputIs(k, v) == input.kind = k /\ input.val = v

\* Reading a decimal rendering back (inverse of `{V}` for integers).
RECURSIVE parse_digits(_)
parse_digits(s) ==
    IF Len(s) = 0 THEN 0
    ELSE parse_digits(SubSeq(s, 1, Len(s) - 1)) * 10 + (s[Len(s)] - 48)

parse_int(s) ==
    IF Len(s) > 0 /\ s[1] = 45 THEN -parse_digits(Tail(s)) ELSE parse_digits(s)

IsDecimal(s) ==
    /\ Len(s) > 0
    /\ \A i \in 1..Len(s) : (s[i] \in 48..57) \/ (i = 1 /\ s[i] = 45 /\ Len(s) > 1)

\* The literal rendering of the constant of wrapper w.
RendersConstant(w, text) ==
    CASE w.fam = "bool" -> text = (IF w.V THEN <<116, 114, 117, 101>>
                                   ELSE <<102, 97, 108, 115, 101>>)
      [] w.fam \in {"int", "uint"} -> IsDecimal(text) /\ parse_int(text) = w.V
      [] w.fam = "char" -> text = <<39, w.V, 39>>

\* Number of characters of a UTF-8 byte sequence: its non-continuation bytes.
CharCount(s) == Cardinality({i \in 1..Len(s) : s[i] < 128 \/ s[i] >= 192})

\* C1: an integer observation numerically equal to V validates successfully
\* against an integer constant of any type, whatever of the ten integer
\* representations the decoder presented it in.
C1_CrossRepresentationEquality ==
    (Returned /\ IsInt /\ input.val = target.V) => result = Ok(target)

C1_Witness ==
    /\ Returned
    /\ TargetIs("int", "i64", 2)
    /\ InputIs("u32", 2)
    /\ result.tag = "Ok"

\* C2: an observation of the wrapper's own primitive kind that differs from V
\* fails with invalid_value, whose expected text is the rendering of V.
C2_MagnitudeMismatch ==
    (Returned /\ target.fam # "untagged" /\ input.kind = target.ty
        /\ input.val # target.V)
    => (result.tag = "invalid_value" /\ RendersConstant(target, result.exp))

C2_Witness ==
    /\ Returned
    /\ TargetIs("char", "char", CharX)
    /\ InputIs("char", CharY)
    /\ result.tag = "invalid_value"

\* C3: a negative observation, in any signed representation, is rejected by
\* every unsigned constant.
C3_NegativeVsUnsigned ==
    (Returned /\ target.fam = "uint" /\ input.val < 0)
    => (input.kind \in SignedKinds /\ result.tag = "invalid_value")

C3_Witness ==
    /\ Returned
    /\ TargetIs("uint", "u8", 200)
    /\ InputIs("i8", -56)
    /\ result.tag = "invalid_value"

\* C4: a signed constant rejecting an observation reports the observation
\* itself (its sign and magnitude) and the rendering of V.
C4_SignedMismatchReportsObservation ==
    (Returned /\ target.fam = "int" /\ input.val # target.V)
    => /\ result.tag = "invalid_value"
       /\ result.unexp = Unexpected(IF input.kind \in SignedKinds
                                    THEN "Signed" ELSE "Unsigned", input.val)
       /\ RendersConstant(target, result.exp)

\* C5: an unsigned constant rejecting an observation reports the observation
\* itself: Signed(v) for a negative v, Unsigned(v) otherwise, at full magnitude.
C5_UnsignedMismatchReportsObservation ==
    (Returned /\ target.fam = "uint" /\ result.tag # "Ok")
    => /\ result.tag = "invalid_value"
       /\ result.unexp = Unexpected(IF input.val < 0 THEN "Signed" ELSE "Unsigned",
                                    input.val)

\* C6: a u128 observation above i128::MAX is rejected by every signed
\* constant and accepted by an unsigned constant exactly when it equals V.
C6_LargeUnsignedLossless ==
    (Returned /\ IsInt /\ input.kind = "u128" /\ input.val > MaxOf("i128"))
    => /\ result.tag \in {"Ok", "invalid_value"}
       /\ target.fam = "int" => result.tag = "invalid_value"
       /\ target.fam = "uint" => (result.tag = "Ok" <=> input.val = target.V)

C6_Witness ==
    /\ Returned
    /\ TargetIs("int", "i8", -1)
    /\ InputIs("u128", MaxOf("u128"))
    /\ result.tag = "invalid_value"

\* C7: text against a character constant: empty text is invalid_length 0, two
\* or more characters are invalid_length above 1, and one character c gives
\* the result of visiting the character c.
C7_CharacterText ==
    (Returned /\ target.fam = "char" /\ input.kind = "str")
    => LET n == CharCount(input.val)
       IN  /\ n = 0 => (result.tag = "invalid_length" /\ result.len = 0)
           /\ n >= 2 => (result.tag = "invalid_length" /\ result.len > 1)
           /\ n = 1 => \E c \in Chars :
                          /\ encode_utf8(c) = input.val
                          /\ result = (IF c = target.V THEN Ok(target)
                                       ELSE invalid_value(Unexpected("Char", c),
                                                          <<39, target.V, 39>>))

C7_Witness ==
    /\ Returned
    /\ TargetIs("char", "char", CharX)
    /\ InputIs("str", <<CharX, CharY>>)
    /\ result.tag = "invalid_length"

\* C8: serialize emits V in T's own kind, and deserializing the emitted value
\* as the same wrapper succeeds with the same marker.
C8_RoundTrip ==
    /\ wire.kind # "none" => (wire.kind = target.ty /\ wire.val = target.V)
    /\ (Returned /\ wire.kind # "none") => result = Ok(target)

C8_Witness ==
    /\ Returned
    /\ wire.kind = "u128"
    /\ TargetIs("uint", "u128", MaxOf("u128"))
    /\ result.tag = "Ok"

\* C9: with variants Bar (tag 1) then Baz (tag 2), an observed tag 2 fails
\* Bar's validation and selects Baz; an observed tag 1 fails Baz's validation
\* and never selects Baz.
C9_UntaggedDiscrimination ==
    (Returned /\ target.fam = "untagged")
    => /\ input.val = 2 => /\ result.tried[1].tag = "invalid_value"
                           /\ result.variant = "Baz"
       /\ input.val = 1 => /\ result.variant # "Baz"
                           /\ int_visit(target.V[2].tag, input.kind, input.val).tag
                                  = "invalid_value"

C9_Witness ==
    /\ Returned
    /\ target.fam = "untagged"
    /\ InputIs("u64", 2)
    /\ result.variant = "Baz"

\* C10: an integer constant accepts only observations numerically equal to V
\* (hence inside T's range); a value merely congruent to V modulo 2^w fails.
C10_NoWraparoundAcceptance ==
    (Returned /\ IsInt /\ result.tag = "Ok")
    => (input.val = target.V /\ InRange(target.ty, input.val))

C10_Witness ==
    /\ Returned
    /\ TargetIs("int", "i8", -1)
    /\ InputIs("u8", 255)
    /\ result.tag = "invalid_value"

====
